---- MODULE Spec2Model ----
(***************************************************************************)
(* Legendre intervals I_n = [(n-1)^2, n^2]: the spin scan of               *)
(* verify_spin_asymmetry.py and the composite-run / radical-volume scan of *)
(* wronskian_scanner.py, each driven by its batch loop (main).             *)
(*                                                                         *)
(* Representation of log-domain floats.  The scripts only ever add natural *)
(* logarithms of positive integers and compare or divide such sums.  A sum *)
(* ln(a1) + ... + ln(ak) is represented exactly by the positive integer    *)
(* a1 * ... * ak (its exponential): 0.0 is 1, "s > 0" is "product > 1",    *)
(* and s <= t is product(s) <= product(t).  No real has exponential 0, so  *)
(* 0 stands for Python's None.  A quotient of two such sums is kept as the *)
(* pair (num, den) of the two products; round() is not represented.        *)
(***************************************************************************)
EXTENDS Integers, Sequences, FiniteSets

MaxLimit   == 12   \* largest --limit explored in spin mode
MaxTarget  == 7    \* largest target n explored in volume mode
MaxTargets == 2    \* longest --targets list explored

VARIABLES mode, limit, targets, pc, iter,
          results, total, holds,
          result, gap, log_vol, log_rad, q_w

vars == <<mode, limit, targets, pc, iter, results, total, holds,
          result, gap, log_vol, log_rad, q_w>>

None == 0

\* ------------------------------------------------------------------------
\* Integer Arithmetic Service (sympy), by its contract
\* ------------------------------------------------------------------------

isprime(x) == x > 1 /\ \A d \in 2..(x - 1) : x % d # 0

factorint_keys(c) == {q \in 2..c : isprime(q) /\ c % q = 0}

RECURSIVE jacobi_loop(_, _, _)
jacobi_loop(a, m, res) ==
  IF a = 0 THEN (IF m = 1 THEN res ELSE 0)
  ELSE IF a % 2 = 0
       THEN jacobi_loop(a \div 2, m, IF m % 8 \in {3, 5} THEN -res ELSE res)
       ELSE jacobi_loop(m % a, a,
                        IF a % 4 = 3 /\ m % 4 = 3 THEN -res ELSE res)

jacobi_symbol(a, m) == jacobi_loop(a % m, m, 1)

RECURSIVE Product(_)
Product(S) == IF S = {} THEN 1
              ELSE LET e == CHOOSE e \in S : TRUE IN e * Product(S \ {e})

RECURSIVE SeqProduct(_)
SeqProduct(s) == IF s = <<>> THEN 1 ELSE Head(s) * SeqProduct(Tail(s))

\* ------------------------------------------------------------------------
\* verify_spin_asymmetry.py
\* ------------------------------------------------------------------------

interior_closed(n) == ((n - 1) * (n - 1)) .. (n * n)
interior(n) == ((n - 1) * (n - 1) + 1) .. (n * n - 1)

NoResult == [is_none |-> TRUE]

count_spins(n, p) ==
  [N_plus  |-> Cardinality({x \in interior(n) :
                              x % p # 0 /\ jacobi_symbol(x % p, p) = 1}),
   N_minus |-> Cardinality({x \in interior(n) :
                              x % p # 0 /\ jacobi_symbol(x % p, p) = -1}),
   N_zero  |-> Cardinality({x \in interior(n) : x % p = 0})]

interval_record(n) ==
  LET p == 2 * n - 1
      c == count_spins(n, p)
      expected_plus  == (p - 3) \div 2
      expected_minus == (p - 1) \div 2
      expected_zero  == 1
  IN  [is_none |-> FALSE, n |-> n, p |-> p,
       missing_residue |-> (n * n) % p,
       N_plus |-> c.N_plus, N_minus |-> c.N_minus, N_zero |-> c.N_zero,
       expected_plus |-> expected_plus, expected_minus |-> expected_minus,
       gap |-> c.N_minus - c.N_plus,
       theorem_holds |-> (c.N_plus = expected_plus
                          /\ c.N_minus = expected_minus
                          /\ c.N_zero = expected_zero)]

verify_interval_noguard(n) == interval_record(n)
verify_interval(n) ==
  IF ~isprime(2 * n - 1) THEN NoResult ELSE interval_record(n)

append_front(rs, r) == <<r>> \o rs
append(rs, r) == Append(rs, r)

SpinIteration ==
  /\ mode = "spin" /\ pc = "loop"
  /\ iter + 2 <= limit
  /\ LET r == verify_interval(iter + 2) IN
       /\ result' = r
       /\ IF r.is_none
          THEN UNCHANGED <<total, holds, results>>
          ELSE /\ total' = total + 1
               /\ holds' = IF r.theorem_holds THEN holds + 1 ELSE holds
               /\ results' = append(results, r)
  /\ iter' = iter + 1
  /\ UNCHANGED <<mode, limit, targets, pc, gap, log_vol, log_rad, q_w>>

SpinLoopExit ==
  /\ mode = "spin" /\ pc = "loop"
  /\ iter + 2 > limit
  /\ pc' = "summary"
  /\ UNCHANGED <<mode, limit, targets, iter, results, total, holds,
                 result, gap, log_vol, log_rad, q_w>>

\* the summary line divides by total
SpinSummary ==
  /\ mode = "spin" /\ pc = "summary"
  /\ pc' = IF total = 0 THEN "crashed" ELSE "done"
  /\ UNCHANGED <<mode, limit, targets, iter, results, total, holds,
                 result, gap, log_vol, log_rad, q_w>>

\* ------------------------------------------------------------------------
\* wronskian_scanner.py
\* ------------------------------------------------------------------------

scan_range_interior(n) == <<(n - 1) * (n - 1) + 1, n * n - 1>>
scan_range(n) == <<(n - 1) * (n - 1), n * n>>

longer_or_equal(current_gap, max_gap) == Len(current_gap) >= Len(max_gap)
longer_reversed(current_gap, max_gap) == Len(max_gap) > Len(current_gap)
longer(current_gap, max_gap) == Len(current_gap) > Len(max_gap)

on_prime(max_gap, current_gap) ==
  [max_gap |-> IF longer(current_gap, max_gap) THEN current_gap ELSE max_gap,
   current_gap |-> <<>>]

RECURSIVE scan(_, _, _, _)
scan(x, end, max_gap, current_gap) ==
  IF x > end
  THEN IF longer(current_gap, max_gap) THEN current_gap ELSE max_gap
  ELSE IF ~isprime(x)
       THEN scan(x + 1, end, max_gap, Append(current_gap, x))
       ELSE LET s == on_prime(max_gap, current_gap)
            IN  scan(x + 1, end, s.max_gap, s.current_gap)

find_max_composite_gap(n) ==
  scan(scan_range(n)[1], scan_range(n)[2], <<>>, <<>>)

Range(s) == {s[k] : k \in 1..Len(s)}

\* math.log raises ValueError on an argument <= 0
log_raises(composites) == \E c \in Range(composites) : c <= 0

log_volume_skip_first(composites) == SeqProduct(Tail(composites))
log_volume_of(composites) == SeqProduct(composites)

all_primes_of(composites) ==
  UNION {factorint_keys(c) : c \in Range(composites)}

log_radical_of(composites) == Product(all_primes_of(composites))

NoneRatio == [kind |-> "None", num |-> 0, den |-> 0]

compute_wronskian(composites) ==
  IF composites = <<>>
  THEN [log_volume |-> None, log_radical |-> None, q_w |-> NoneRatio]
  ELSE LET lv == log_volume_of(composites)
           lr == log_radical_of(composites)
       IN  [log_volume |-> lv, log_radical |-> lr,
            q_w |-> IF lr > 1 THEN [kind |-> "ratio", num |-> lv, den |-> lr]
                    ELSE [kind |-> "inf", num |-> lv, den |-> lr]]

\* Python truthiness of a float-or-None value
truthy(v) == v # None /\ v # 1
truthy_ratio(q) == q.kind = "inf" \/ (q.kind = "ratio" /\ q.num # 1)

make_row(n, g, w) ==
  [n |-> n,
   gap_length |-> Len(g),
   gap_start |-> IF g # <<>> THEN g[1] ELSE None,
   gap_end |-> IF g # <<>> THEN g[Len(g)] ELSE None,
   log_volume |-> IF truthy(w.log_volume) THEN w.log_volume ELSE None,
   log_radical |-> IF truthy(w.log_radical) THEN w.log_radical ELSE None,
   q_W |-> IF truthy_ratio(w.q_w) THEN w.q_w ELSE NoneRatio]

\* formatting None with a float format spec raises TypeError
print_raises(w) == w.log_volume = None \/ w.log_radical = None
                   \/ w.q_w.kind = "None"

VolumeIteration ==
  /\ mode = "volume" /\ pc = "loop"
  /\ iter < Len(targets)
  /\ LET n == targets[iter + 1]
         g == find_max_composite_gap(n)
     IN  /\ gap' = g
         /\ IF g # <<>> /\ log_raises(g)
            THEN /\ pc' = "crashed"
                 /\ UNCHANGED <<log_vol, log_rad, q_w, results>>
            ELSE LET w == compute_wronskian(g) IN
                 /\ log_vol' = w.log_volume
                 /\ log_rad' = w.log_radical
                 /\ q_w' = w.q_w
                 /\ results' = append(results, make_row(n, g, w))
                 /\ pc' = IF print_raises(w) THEN "crashed" ELSE "loop"
  /\ iter' = iter + 1
  /\ UNCHANGED <<mode, limit, targets, total, holds, result>>

VolumeLoopExit ==
  /\ mode = "volume" /\ pc = "loop"
  /\ iter = Len(targets)
  /\ pc' = "done"
  /\ UNCHANGED <<mode, limit, targets, iter, results, total, holds,
                 result, gap, log_vol, log_rad, q_w>>

\* ------------------------------------------------------------------------
\* topology_scanner.py
\* ------------------------------------------------------------------------

\* run_weapon_a_topology: prime_p_count is kept in total, law_holds_count in
\* holds; the two spin counters of the last qualifying n are kept in result.
TopologySpinIteration ==
  /\ mode = "topology_a" /\ pc = "loop"
  /\ iter + 2 <= limit
  /\ LET n == iter + 2
         p == 2 * n - 1
     IN  IF isprime(p)
         THEN LET positive_spin ==
                    Cardinality({x \in interior(n) :
                                   x % p # 0 /\ jacobi_symbol(x, p) = 1})
                  negative_spin ==
                    Cardinality({x \in interior(n) :
                                   x % p # 0 /\ jacobi_symbol(x, p) = -1})
              IN  /\ total' = total + 1
                  /\ holds' = IF negative_spin - positive_spin = 1
                              THEN holds + 1 ELSE holds
                  /\ result' = [is_none |-> FALSE, n |-> n, p |-> p,
                                positive_spin |-> positive_spin,
                                negative_spin |-> negative_spin]
         ELSE UNCHANGED <<total, holds, result>>
  /\ iter' = iter + 1
  /\ UNCHANGED <<mode, limit, targets, pc, results,
                 gap, log_vol, log_rad, q_w>>

\* the closing report divides by prime_p_count
TopologySpinExit ==
  /\ mode = "topology_a" /\ pc = "loop"
  /\ iter + 2 > limit
  /\ pc' = IF total = 0 THEN "crashed" ELSE "done"
  /\ UNCHANGED <<mode, limit, targets, iter, results, total, holds,
                 result, gap, log_vol, log_rad, q_w>>

\* run_weapon_b_wronskian: max_gap_seq is kept in gap, total_product_log in
\* log_vol, total_radical_log in log_rad, compression_ratio in q_w.
TopologyVolumeIteration ==
  /\ mode = "topology_b" /\ pc = "loop"
  /\ iter < Len(targets)
  /\ LET n == targets[iter + 1]
         g == find_max_composite_gap(n)
     IN  /\ gap' = g
         /\ IF Len(g) = 0
            THEN UNCHANGED <<log_vol, log_rad, q_w, pc>>
            ELSE IF log_raises(g)
            THEN /\ pc' = "crashed"
                 /\ UNCHANGED <<log_vol, log_rad, q_w>>
            ELSE LET lv == log_volume_of(g)
                     lr == log_radical_of(g)
                 IN  /\ log_vol' = lv
                     /\ log_rad' = lr
                     /\ q_w' = [kind |-> IF lr > 1 THEN "ratio" ELSE "one",
                                num |-> lv, den |-> lr]
                     /\ UNCHANGED pc
  /\ iter' = iter + 1
  /\ UNCHANGED <<mode, limit, targets, results, total, holds, result>>

TopologyVolumeExit ==
  /\ mode = "topology_b" /\ pc = "loop"
  /\ iter = Len(targets)
  /\ pc' = "done"
  /\ UNCHANGED <<mode, limit, targets, iter, results, total, holds,
                 result, gap, log_vol, log_rad, q_w>>

\* ------------------------------------------------------------------------

TargetLists == UNION {[1..k -> 0..MaxTarget] : k \in 1..MaxTargets}

Init ==
  /\ mode \in {"spin", "volume", "topology_a", "topology_b"}
  /\ limit \in IF mode \in {"spin", "topology_a"} THEN 1..MaxLimit ELSE {0}
  /\ targets \in IF mode \in {"volume", "topology_b"} THEN TargetLists
                 ELSE {<<>>}
  /\ pc = "loop"
  /\ iter = 0
  /\ results = <<>>
  /\ total = 0
  /\ holds = 0
  /\ result = NoResult
  /\ gap = <<>>
  /\ log_vol = None
  /\ log_rad = None
  /\ q_w = NoneRatio

Next ==
  \/ SpinIteration
  \/ SpinLoopExit
  \/ SpinSummary
  \/ VolumeIteration
  \/ VolumeLoopExit
  \/ TopologySpinIteration
  \/ TopologySpinExit
  \/ TopologyVolumeIteration
  \/ TopologyVolumeExit

Spec == Init /\ [][Next]_vars

\* ------------------------------------------------------------------------
\* Number-theoretic notions the properties are stated in
\* ------------------------------------------------------------------------

Composite(x) == \E a \in 2..(x - 1) : \E b \in 2..(x - 1) : a * b = x
IsPrimeNumber(x) == x > 1 /\ ~Composite(x)
IsQR(a, p) == \E y \in 1..(p - 1) : (y * y) % p = a
Sq(n) == n * n
Interior(n) == (Sq(n - 1) + 1) .. (Sq(n) - 1)

\* a run has been computed for the current target of a volume-mode batch
RunComputed == mode \in {"volume", "topology_b"} /\ iter >= 1
CurrentN == targets[iter]
LoopOver == pc \in {"summary", "done", "crashed"}

\* C1: whenever p = 2n-1 is prime the spin tally of the interior of I_n has
\* N_plus + N_minus + N_zero = p-1, N_zero = 1, N_minus - N_plus = 1,
\* N_plus = (p-3)/2 = number of interior points whose residue is a nonzero
\* quadratic residue, N_minus = (p-1)/2, and theorem_holds is true; the
\* topology scan's law check succeeds for every qualifying n.
C1_SpinAsymmetry ==
  /\ mode = "spin" =>
       \A k \in 1..Len(results) :
         LET r == results[k] IN
           /\ r.n >= 2 /\ r.p = 2 * r.n - 1 /\ IsPrimeNumber(r.p)
           /\ r.N_plus + r.N_minus + r.N_zero = r.p - 1
           /\ r.N_zero = 1
           /\ r.N_minus - r.N_plus = 1
           /\ 2 * r.N_plus = r.p - 3
           /\ 2 * r.N_minus = r.p - 1
           /\ r.N_plus = Cardinality({x \in Interior(r.n) :
                                        x % r.p # 0 /\ IsQR(x % r.p, r.p)})
           /\ r.theorem_holds
  /\ (mode = "topology_a" /\ ~result.is_none) =>
       /\ result.negative_spin - result.positive_spin = 1
       /\ holds = total

C1_Witness ==
  /\ mode = "spin" /\ Len(results) >= 3
  /\ results[Len(results)].p >= 11
  /\ results[Len(results)].N_plus >= 4

\* C2: for n >= 2 every member of the run returned by
\* find_max_composite_gap(n) is composite (greater than 1 and not prime).
C2_AllMembersComposite ==
  (RunComputed /\ CurrentN >= 2) =>
     \A k \in 1..Len(gap) : Composite(gap[k])

\* C3: for n >= 2 the returned run is a block of consecutive integers inside
\* [(n-1)^2, n^2]; the integer before its first member is prime or below
\* (n-1)^2 and the integer after its last member is prime or above n^2.
C3_RunMaximal ==
  (RunComputed /\ CurrentN >= 2 /\ gap # <<>>) =>
     LET first == gap[1]
         last  == gap[Len(gap)]
     IN  /\ \A k \in 1..Len(gap) : gap[k] = first + k - 1
         /\ Sq(CurrentN - 1) <= first /\ last <= Sq(CurrentN)
         /\ IsPrimeNumber(first - 1) \/ first - 1 < Sq(CurrentN - 1)
         /\ IsPrimeNumber(last + 1) \/ last + 1 > Sq(CurrentN)

C3_Witness ==
  /\ RunComputed /\ CurrentN >= 2 /\ Len(gap) >= 3
  /\ IsPrimeNumber(gap[1] - 1) /\ IsPrimeNumber(gap[Len(gap)] + 1)

\* C4: for the non-empty run of an n >= 2 the radical is at most the volume
\* (logRadical <= logVolume) and the reported ratio is at least 1.
RatioAtLeastOne(q) ==
  \/ q.kind = "inf"
  \/ q.kind = "one"
  \/ q.kind = "ratio" /\ q.den > 1 /\ q.num >= q.den

C4_RadicalAtMostVolume ==
  (RunComputed /\ CurrentN >= 2 /\ gap # <<>>) =>
     /\ log_rad # None /\ log_vol # None
     /\ log_rad <= log_vol
     /\ RatioAtLeastOne(q_w)

C4_Witness ==
  /\ RunComputed /\ CurrentN >= 2 /\ Len(gap) >= 3
  /\ q_w.kind = "ratio" /\ 1 < log_rad /\ log_rad < log_vol

\* C5: after the spin-mode loop the qualifying-interval counter equals the
\* number of n in 2..limit with 2n-1 prime and the number of records, no
\* record belongs to an n with 2n-1 composite, and verified <= qualifying.
C5_SkipNonPrime ==
  (mode = "spin" /\ LoopOver) =>
     /\ total = Cardinality({n \in 2..limit : IsPrimeNumber(2 * n - 1)})
     /\ total = Len(results)
     /\ holds <= total
     /\ \A k \in 1..Len(results) : IsPrimeNumber(2 * results[k].n - 1)

C5_Witness ==
  /\ mode = "spin" /\ pc = "done" /\ limit >= 5
  /\ total >= 3 /\ total < limit - 1

\* C6 (as stated): in both modes the records are in ascending order of n.
C6_RecordsAscending ==
  mode \in {"spin", "volume"} =>
     \A j \in 1..Len(results) : \A k \in 1..Len(results) :
        j < k => results[j].n <= results[k].n

\* C6 (amended): spin-mode records are in strictly ascending n; in volume
\* mode the k-th record is the record of the k-th target, so the records
\* follow the order of the target list as given.
C6_RecordsInInputOrder ==
  /\ mode = "spin" =>
       \A j \in 1..Len(results) : \A k \in 1..Len(results) :
          j < k => results[j].n < results[k].n
  /\ mode = "volume" =>
       /\ Len(results) <= Len(targets)
       /\ \A k \in 1..Len(results) : results[k].n = targets[k]

C6_Witness ==
  /\ mode = "volume" /\ pc = "done" /\ Len(results) = 2
  /\ results[1].n > results[2].n

\* C7: a failure while analysing one n does not stop the batch: when the
\* volume-mode driver has stopped, every valid target has its record.
C7_BatchContinues ==
  (mode = "volume" /\ LoopOver) =>
     \A j \in 1..Len(targets) :
        targets[j] >= 2 => \E k \in 1..Len(results) : results[k].n = targets[j]

\* C8: the returned run is a longest run of consecutive non-primes of
\* [(n-1)^2, n^2], and the earliest among the runs of that length.
NonPrimeBlock(a, b) == \A x \in a..b : ~IsPrimeNumber(x)

C8_LongestEarliest ==
  (RunComputed /\ CurrentN >= 2) =>
     LET lo == Sq(CurrentN - 1)
         hi == Sq(CurrentN)
     IN  /\ gap # <<>> => NonPrimeBlock(gap[1], gap[Len(gap)])
         /\ \A k \in 1..Len(gap) : gap[k] = gap[1] + k - 1
         /\ \A a \in lo..hi : \A b \in a..hi :
              NonPrimeBlock(a, b) =>
                 /\ b - a + 1 <= Len(gap)
                 /\ b - a + 1 = Len(gap) => gap[1] <= a

C8_Witness ==
  /\ RunComputed /\ CurrentN >= 2 /\ Len(gap) >= 2
  /\ \E a \in (gap[1] + 1)..Sq(CurrentN) :
        /\ a + Len(gap) - 1 <= Sq(CurrentN)
        /\ NonPrimeBlock(a, a + Len(gap) - 1)

\* C9: for n >= 2 the non-empty run has at least one prime factor, so
\* logRadical > 0.
C9_RadicalPositive ==
  (RunComputed /\ CurrentN >= 2 /\ gap # <<>>) =>
     log_rad # None /\ log_rad > 1

\* C10: for n >= 2 the run is never empty (n^2 is not prime), so neither
\* the None sentinel nor the skip is taken.
C10_RunNonEmpty ==
  (RunComputed /\ CurrentN >= 2) =>
     /\ ~IsPrimeNumber(Sq(CurrentN))
     /\ gap # <<>>
     /\ log_vol # None /\ log_rad # None /\ q_w.kind # "None"

C10_Witness ==
  /\ RunComputed /\ CurrentN >= 2 /\ gap # <<>>
  /\ gap[Len(gap)] = Sq(CurrentN) /\ Len(gap) >= 4
====
